---- MODULE Spec2Model ----
\* Verification model of the rongta text-layout and emission engine:
\* Line (wrapping), PrintBuilder (mutators, print_to), StyledChar emission and
\* the CP437 validator.  Characters are Unicode code points (integers).
EXTENDS Integers, Sequences, FiniteSets, TLC

VARIABLES
    lines,                    \* PrintBuilder.lines : Seq(Line)
    cut,                      \* PrintBuilder.cut
    current_text_size,        \* PrintBuilder.current_text_size
    current_text_decoration,  \* PrintBuilder.current_text_decoration
    out,                      \* commands received by the printer in the last print_to
    result,                   \* Result of the last call: "Ok" / "Err" ("none" before any call)
    last,                     \* the last call: its name and its arguments
    supplied,                 \* every StyledChar handed to add_content / add_char_content so far
    nops,                     \* number of calls made on the builder
    only_appended,            \* no call so far has pushed or changed a Line other than by appending
    line,                     \* receiver of Line::add_char (Line specification)
    before,                   \* the receiver as it was before the last Line::add_char
    added,                    \* Option<StyledChar>: the argument of the last Line::add_char
    returned,                 \* Option<Line> returned by the last Line::add_char
    nadds,                    \* number of Line::add_char calls made on line
    styled_char,              \* receiver of StyledChar::to_print_command (character specification)
    fail_at                   \* Option: the position, among the commands of the last print, of the one the device failed

vars == <<lines, cut, current_text_size, current_text_decoration, out, result,
          last, supplied, nops, only_appended, line, before, added, returned,
          nadds, styled_char, fail_at>>

builderVars == <<lines, cut, current_text_size, current_text_decoration, out,
                 result, last, supplied, nops, only_appended>>

lineVars == <<line, before, added, returned, nadds>>

emitVars == <<styled_char, fail_at>>

-----------------------------------------------------------------------------
\* Program constants

CPL == 48

\* Bounds of the model
MaxOps == 3
MaxAddChar == 2
MaxPre == 2
Slack == 3

-----------------------------------------------------------------------------
\* Option<T>: None is the empty tuple, Some(x) the one-element tuple.

None == <<>>

Some(x) == <<x>>

IsSome(o) == Len(o) = 1

Unwrap(o) == o[1]

Rep(x, n) == [i \in 1..n |-> x]

\* A loop over the indices lo..hi in increasing order: Step(st, i) is the loop
\* body run on state st at index i.  The range is halved, and the state after
\* the first half is evaluated (left = left) before the second half starts,
\* only to keep the evaluation shallow; the result is that of the
\* left-to-right loop.
RECURSIVE ForRange(_, _, _, _)
ForRange(Step(_, _), st, lo, hi) ==
    IF lo > hi THEN st
    ELSE IF lo = hi THEN Step(st, lo)
    ELSE LET mid == (lo + hi) \div 2
             left == ForRange(Step, st, lo, mid)
         IN IF left = left THEN ForRange(Step, left, mid + 1, hi) ELSE left

-----------------------------------------------------------------------------
\* Characters (code points)

CH_a == 97
CH_SPACE == 32
CH_APOSTROPHE == 39
CH_QUOTE == 34
CH_HYPHEN == 45
CH_RSQUO == 8217
CH_EMOJI == 128512

CH_NEWLINE == 10
CH_w == 119
CH_o == 111
CH_r == 114
CH_d == 100
CH_b == 98
CH_X == 88

\* char::is_whitespace: the Unicode White_Space code points
WhiteSpaceChars ==
    (9..13) \cup {32, 133, 160, 5760} \cup (8192..8202)
        \cup {8232, 8233, 8239, 8287, 12288}

is_whitespace(ch) == ch \in WhiteSpaceChars

is_ascii(ch) == ch >= 0 /\ ch <= 127

CP437_CHARS ==
    {199, 252, 233, 226, 228, 224, 229, 231, 234, 235, 232, 239, 238, 236, 196,
     197, 201, 230, 198, 244, 246, 242, 251, 249, 255, 214, 220, 162, 163, 165,
     8359, 402, 225, 237, 243, 250, 241, 209, 170, 186, 191, 8976, 172, 189,
     188, 161, 171, 187, 9617, 9618, 9619, 9474, 9508, 9569, 9570, 9558, 9557,
     9571, 9553, 9559, 9565, 9564, 9563, 9488, 9492, 9524, 9516, 9500, 9472,
     9532, 9566, 9567, 9562, 9556, 9577, 9574, 9568, 9552, 9580, 9575, 9576,
     9572, 9573, 9561, 9560, 9554, 9555, 9579, 9578, 9496, 9484, 9608, 9604,
     9612, 9616, 9600, 945, 223, 915, 960, 931, 963, 181, 964, 934, 920, 937,
     948, 8734, 966, 949, 8745, 8801, 177, 8805, 8804, 8992, 8993, 247, 8776,
     176, 8729, 183, 8730, 8319, 178, 9632, 160}

EXTENDED_CP437 == {ch \in CP437_CHARS : ~is_ascii(ch)}

\* normalize_char replacing a curly double quote by a curly single quote
normalize_char_chained(ch) ==
    IF ch \in {8216, 8217, 700} THEN Some(CH_APOSTROPHE)
    ELSE IF ch \in {8220, 8221} THEN Some(CH_RSQUO)
    ELSE IF ch \in {8211, 8212} THEN Some(CH_HYPHEN)
    ELSE None

\* cp437::normalize_char : Option<char>
normalize_char(ch) ==
    IF ch \in {8216, 8217, 700} THEN Some(CH_APOSTROPHE)
    ELSE IF ch \in {8220, 8221} THEN Some(CH_QUOTE)
    ELSE IF ch \in {8211, 8212} THEN Some(CH_HYPHEN)
    ELSE None

is_cp437_char(ch) ==
    IF is_ascii(ch) THEN TRUE ELSE ch \in EXTENDED_CP437

\* cp437::cp437_char_only : Result<char>, Ok(ch) is Some(ch), Err is None
cp437_char_only(ch) ==
    IF is_cp437_char(ch) THEN Some(ch) ELSE None

-----------------------------------------------------------------------------
\* elements.rs value types

TextSizes == {"Medium", "Large", "ExtraLarge"}

char_width(size) ==
    CASE size = "Medium" -> 1
      [] size = "Large" -> 2
      [] size = "ExtraLarge" -> 3

TextDecoration(b, u, i) == [bold |-> b, underline |-> u, italic |-> i]

DefaultDecoration == TextDecoration(FALSE, FALSE, FALSE)

Justifies == {"Left", "Center", "Right"}

FormatState(size, deco) == [text_size |-> size, text_decoration |-> deco]

StyledChar(ch, size, deco) == [ch |-> ch, state |-> FormatState(size, deco)]

\* Line { chars, justify_content }
Line(chars, justify) == [chars |-> chars, justify_content |-> justify]

DefaultLine == Line(<<>>, "Left")

-----------------------------------------------------------------------------
\* Line

\* Line::visual_width
visual_width(chars) ==
    ForRange(LAMBDA w, i : w + char_width(chars[i].state.text_size),
             0, 1, Len(chars))

\* find_wrap_step keeping the first whitespace instead of the last
find_wrap_step_first(chars, st, i) ==
    IF st.broke THEN st
    ELSE LET sc == chars[i + 1]
             lw == IF /\ is_whitespace(sc.ch)
                      /\ st.width <= CPL
                      /\ ~IsSome(st.last_whitespace_idx)
                   THEN Some(i) ELSE st.last_whitespace_idx
             w2 == st.width + char_width(sc.state.text_size)
         IN [width |-> w2, last_whitespace_idx |-> lw, broke |-> w2 > CPL]

\* the body of the for loop of Line::find_wrap_point at the character of
\* 0-based index i; st.broke records that the loop has hit its break
find_wrap_step(chars, st, i) ==
    IF st.broke THEN st
    ELSE LET sc == chars[i + 1]
             lw == IF is_whitespace(sc.ch) /\ st.width <= CPL
                   THEN Some(i) ELSE st.last_whitespace_idx
             w2 == st.width + char_width(sc.state.text_size)
         IN [width |-> w2, last_whitespace_idx |-> lw, broke |-> w2 > CPL]

\* Line::find_wrap_point : Option<usize>
find_wrap_point(chars) ==
    IF visual_width(chars) <= CPL THEN None
    ELSE ForRange(LAMBDA st, i : find_wrap_step(chars, st, i),
                  [width |-> 0, last_whitespace_idx |-> None, broke |-> FALSE],
                  0, Len(chars) - 1).last_whitespace_idx

\* split_off keeping the character at index at in the first part
split_off_after(chars, at) ==
    [kept |-> SubSeq(chars, 1, at + 1), tail |-> SubSeq(chars, at + 2, Len(chars))]

\* Vec::split_off(at): [kept, tail]
split_off(chars, at) ==
    [kept |-> SubSeq(chars, 1, at), tail |-> SubSeq(chars, at + 1, Len(chars))]

\* wrap_split removing the first character of the remainder of a hard wrap too
wrap_split_remove_first(pushed) ==
    LET wp == find_wrap_point(pushed)
        sp == split_off(pushed, IF IsSome(wp) THEN Unwrap(wp) ELSE Len(pushed) - 1)
    IN [kept |-> sp.kept,
        remainder |-> IF sp.tail # <<>> THEN Tail(sp.tail) ELSE sp.tail]

\* wrap_split leaving the whitespace of the wrap point in the receiver
wrap_split_keep_whitespace(pushed) ==
    LET wp == find_wrap_point(pushed)
    IN IF IsSome(wp)
       THEN LET sp == split_off(pushed, Unwrap(wp) + 1)
            IN [kept |-> sp.kept, remainder |-> sp.tail]
       ELSE LET sp == split_off(pushed, Len(pushed) - 1)
            IN [kept |-> sp.kept, remainder |-> sp.tail]

\* wrap_split whose hard wrap drops the character that does not fit
wrap_split_drop_overflow(pushed) ==
    LET wp == find_wrap_point(pushed)
    IN IF IsSome(wp)
       THEN LET sp == split_off(pushed, Unwrap(wp))
            IN [kept |-> sp.kept,
                remainder |-> IF sp.tail # <<>> THEN Tail(sp.tail) ELSE sp.tail]
       ELSE LET sp == split_off(pushed, Len(pushed) - 1)
            IN [kept |-> sp.kept, remainder |-> <<>>]

\* wrap_split whose hard wrap moves the last two characters
wrap_split_hard_two(pushed) ==
    LET wp == find_wrap_point(pushed)
    IN IF IsSome(wp)
       THEN LET sp == split_off(pushed, Unwrap(wp))
            IN [kept |-> sp.kept,
                remainder |-> IF sp.tail # <<>> THEN Tail(sp.tail) ELSE sp.tail]
       ELSE LET sp == split_off(pushed, Len(pushed) - 2)
            IN [kept |-> sp.kept, remainder |-> sp.tail]

\* the remainder computed by Line::add_char once the width exceeds CPL
wrap_split(pushed) ==
    LET wp == find_wrap_point(pushed)
    IN IF IsSome(wp)
       THEN LET sp == split_off(pushed, Unwrap(wp))
            IN [kept |-> sp.kept,
                remainder |-> IF sp.tail # <<>> THEN Tail(sp.tail) ELSE sp.tail]
       ELSE LET sp == split_off(pushed, Len(pushed) - 1)
            IN [kept |-> sp.kept, remainder |-> sp.tail]

\* add_char wrapping as soon as the width reaches CPL
add_char_strict(self, sch) ==
    LET pushed == Append(self.chars, sch)
    IN IF visual_width(pushed) < CPL
       THEN [self |-> Line(pushed, self.justify_content), ret |-> None]
       ELSE LET sp == wrap_split(pushed)
            IN [self |-> Line(sp.kept, self.justify_content),
                ret |-> IF sp.remainder # <<>>
                        THEN Some(Line(sp.remainder, self.justify_content))
                        ELSE None]

\* add_char returning a Line of the default justification
add_char_default_justify(self, sch) ==
    LET pushed == Append(self.chars, sch)
    IN IF visual_width(pushed) <= CPL
       THEN [self |-> Line(pushed, self.justify_content), ret |-> None]
       ELSE LET sp == wrap_split(pushed)
            IN [self |-> Line(sp.kept, self.justify_content),
                ret |-> IF sp.remainder # <<>>
                        THEN Some(Line(sp.remainder, "Left"))
                        ELSE None]

\* Line::add_char: [self |-> the receiver afterwards, ret |-> Option<Line>]
add_char(self, sch) ==
    LET pushed == Append(self.chars, sch)
    IN IF visual_width(pushed) <= CPL
       THEN [self |-> Line(pushed, self.justify_content), ret |-> None]
       ELSE LET sp == wrap_split(pushed)
            IN [self |-> Line(sp.kept, self.justify_content),
                ret |-> IF sp.remainder # <<>>
                        THEN Some(Line(sp.remainder, self.justify_content))
                        ELSE None]

-----------------------------------------------------------------------------
\* PrintBuilder

\* PrintBuilder::current_line_justify_content
current_line_justify_content(ls) ==
    IF ls = <<>> THEN "Left" ELSE ls[Len(ls)].justify_content

\* self.lines.pop().unwrap_or_else(|| Line { justify_content: ..., ..Default::default() })
pop_or_new(ls) ==
    IF ls = <<>>
    THEN [rest |-> <<>>, current_line |-> Line(<<>>, current_line_justify_content(ls))]
    ELSE [rest |-> SubSeq(ls, 1, Len(ls) - 1), current_line |-> ls[Len(ls)]]

\* add_char_content_lines losing the Line a wrap returns
add_char_content_lines_no_push(ls, content) ==
    LET p == pop_or_new(ls)
        r == add_char(p.current_line, content)
    IN Append(p.rest, r.self)

\* the lines left by PrintBuilder::add_char_content
add_char_content_lines(ls, content) ==
    LET p == pop_or_new(ls)
        r == add_char(p.current_line, content)
        pushed == Append(p.rest, r.self)
    IN IF IsSome(r.ret) THEN Append(pushed, Unwrap(r.ret)) ELSE pushed

\* add_content_step that does not push the Line a wrap has finished
add_content_step_forget(st, char, current_state) ==
    LET r == add_char(st.current_line, [ch |-> char, state |-> current_state])
    IN IF IsSome(r.ret)
       THEN [lines |-> st.lines, current_line |-> Unwrap(r.ret)]
       ELSE [lines |-> st.lines, current_line |-> r.self]

\* add_content_step leaving out a character that fails the CP437 validation
add_content_step_validating(st, char, current_state) ==
    IF ~IsSome(cp437_char_only(char)) THEN st
    ELSE LET r == add_char(st.current_line, [ch |-> char, state |-> current_state])
         IN IF IsSome(r.ret)
            THEN [lines |-> Append(st.lines, r.self), current_line |-> Unwrap(r.ret)]
            ELSE [lines |-> st.lines, current_line |-> r.self]

\* add_content_step starting a new Line at a line feed character
add_content_step_newline_breaks(st, char, current_state) ==
    IF char = CH_NEWLINE
    THEN [lines |-> Append(st.lines, st.current_line),
          current_line |-> Line(<<>>, st.current_line.justify_content)]
    ELSE LET r == add_char(st.current_line, [ch |-> char, state |-> current_state])
         IN IF IsSome(r.ret)
            THEN [lines |-> Append(st.lines, r.self), current_line |-> Unwrap(r.ret)]
            ELSE [lines |-> st.lines, current_line |-> r.self]

\* the body of the for loop of PrintBuilder::add_content for one char
add_content_step(st, char, current_state) ==
    LET r == add_char(st.current_line, [ch |-> char, state |-> current_state])
    IN IF IsSome(r.ret)
       THEN [lines |-> Append(st.lines, r.self), current_line |-> Unwrap(r.ret)]
       ELSE [lines |-> st.lines, current_line |-> r.self]

\* add_content_lines stamping the default size instead of the pending one
add_content_lines_default_size(ls, content, size, deco) ==
    LET p == pop_or_new(ls)
        end == ForRange(LAMBDA st, i :
                            add_content_step(st, content[i], FormatState("Medium", deco)),
                        [lines |-> p.rest, current_line |-> p.current_line],
                        1, Len(content))
    IN Append(end.lines, end.current_line)

\* the lines left by PrintBuilder::add_content
add_content_lines(ls, content, size, deco) ==
    LET p == pop_or_new(ls)
        end == ForRange(LAMBDA st, i :
                            add_content_step(st, content[i], FormatState(size, deco)),
                        [lines |-> p.rest, current_line |-> p.current_line],
                        1, Len(content))
    IN Append(end.lines, end.current_line)

\* set_justify_content_lines justifying every Line of the builder
set_justify_content_lines_every(ls, justify) ==
    IF ls # <<>>
    THEN [i \in DOMAIN ls |-> Line(ls[i].chars, justify)]
    ELSE Append(ls, Line(<<>>, justify))

\* the lines left by PrintBuilder::set_justify_content
set_justify_content_lines(ls, justify) ==
    IF ls # <<>>
    THEN [ls EXCEPT ![Len(ls)].justify_content = justify]
    ELSE Append(ls, Line(<<>>, justify))

\* the StyledChars an add_content call stamps
Stamp(content, size, deco) ==
    [i \in 1..Len(content) |-> StyledChar(content[i], size, deco)]

Call(op, chars, arg, rows) == [op |-> op, chars |-> chars, arg |-> arg, rows |-> rows]

add_char_content(content) ==
    /\ nops < MaxOps
    /\ lines' = add_char_content_lines(lines, content)
    /\ result' = "Ok"
    /\ supplied' = Append(supplied, content)
    /\ last' = Call("add_char_content", <<content>>, "", None)
    /\ nops' = nops + 1
    /\ out' = <<>>
    /\ UNCHANGED <<cut, current_text_size, current_text_decoration, only_appended,
                   lineVars, emitVars>>

add_content(content) ==
    /\ nops < MaxOps
    /\ lines' = add_content_lines(lines, content, current_text_size,
                                  current_text_decoration)
    /\ result' = "Ok"
    /\ supplied' = supplied \o Stamp(content, current_text_size,
                                     current_text_decoration)
    /\ last' = Call("add_content",
                    Stamp(content, current_text_size, current_text_decoration),
                    "", None)
    /\ nops' = nops + 1
    /\ out' = <<>>
    /\ UNCHANGED <<cut, current_text_size, current_text_decoration, only_appended,
                   lineVars, emitVars>>

new_line ==
    /\ nops < MaxOps
    /\ lines' = Append(lines, Line(<<>>, current_line_justify_content(lines)))
    /\ result' = "Ok"
    /\ last' = Call("new_line", <<>>, "", None)
    /\ nops' = nops + 1
    /\ out' = <<>>
    /\ only_appended' = FALSE
    /\ UNCHANGED <<cut, current_text_size, current_text_decoration, supplied,
                   lineVars, emitVars>>

set_justify_content(justify) ==
    /\ nops < MaxOps
    /\ lines' = set_justify_content_lines(lines, justify)
    /\ result' = "Ok"
    /\ last' = Call("set_justify_content", <<>>, justify, None)
    /\ nops' = nops + 1
    /\ out' = <<>>
    /\ only_appended' = FALSE
    /\ UNCHANGED <<cut, current_text_size, current_text_decoration, supplied,
                   lineVars, emitVars>>

set_text_size(size) ==
    /\ nops < MaxOps
    /\ current_text_size' = size
    /\ result' = "Ok"
    /\ last' = Call("set_text_size", <<>>, size, None)
    /\ nops' = nops + 1
    /\ out' = <<>>
    /\ UNCHANGED <<lines, cut, current_text_decoration, supplied, only_appended,
                   lineVars, emitVars>>

set_text_decoration(decoration) ==
    /\ nops < MaxOps
    /\ current_text_decoration' = decoration
    /\ result' = "Ok"
    /\ last' = Call("set_text_decoration", <<>>, "", None)
    /\ nops' = nops + 1
    /\ out' = <<>>
    /\ UNCHANGED <<lines, cut, current_text_size, supplied, only_appended,
                   lineVars, emitVars>>

\* reset_styles that resets the pending style only
reset_styles_pending_only ==
    /\ nops < MaxOps
    /\ current_text_size' = "Medium"
    /\ current_text_decoration' = DefaultDecoration
    /\ lines' = lines
    /\ result' = "Ok"
    /\ last' = Call("reset_styles", <<>>, "", None)
    /\ nops' = nops + 1
    /\ out' = <<>>
    /\ only_appended' = FALSE
    /\ UNCHANGED <<cut, supplied, lineVars, emitVars>>

reset_styles ==
    /\ nops < MaxOps
    /\ current_text_size' = "Medium"
    /\ current_text_decoration' = DefaultDecoration
    /\ lines' = set_justify_content_lines(lines, "Left")
    /\ result' = "Ok"
    /\ last' = Call("reset_styles", <<>>, "", None)
    /\ nops' = nops + 1
    /\ out' = <<>>
    /\ only_appended' = FALSE
    /\ UNCHANGED <<cut, supplied, lineVars, emitVars>>

-----------------------------------------------------------------------------
\* Emission: the commands AnyPrinter receives

Cmd(name, arg, ch) == [cmd |-> name, arg |-> arg, ch |-> ch]

FEED == Cmd("feed", "", 0)

PRINT_CUT == Cmd("print_cut", "", 0)

PRINT == Cmd("print", "", 0)

\* a step of emission: once a command has returned Err (ok = FALSE) the `?`
\* has left print_to and nothing more is issued
Then(st, c) ==
    IF ~st.ok THEN st ELSE [cmds |-> st.cmds \o c.cmds, ok |-> c.ok]

Issue(cmds) == [cmds |-> cmds, ok |-> TRUE]

\* impl ToPrintCommand for Justify
justify_commands(justify) ==
    CASE justify = "Left" -> <<Cmd("justify", "LEFT", 0)>>
      [] justify = "Center" -> <<Cmd("justify", "CENTER", 0)>>
      [] justify = "Right" -> <<Cmd("justify", "RIGHT", 0)>>

\* impl ToPrintCommand for TextSize
size_commands(size) ==
    CASE size = "Medium" -> <<Cmd("reset_size", "", 0)>>
      [] size = "Large" -> <<Cmd("size", "2x2", 0)>>
      [] size = "ExtraLarge" -> <<Cmd("size", "3x3", 0)>>

\* impl ToPrintCommand for TextDecoration
decoration_commands(d) ==
    << Cmd("bold", IF d.bold THEN "true" ELSE "false", 0),
       Cmd("underline", IF d.underline THEN "Single" ELSE "None", 0),
       Cmd("underline", IF d.italic THEN "Single" ELSE "None", 0) >>

\* styled_char_commands passing over a character the device does not have
styled_char_commands_skip(sc) ==
    LET n == normalize_char(sc.ch)
        normalized_ch == IF IsSome(n) THEN Unwrap(n) ELSE sc.ch
        ascii_content == cp437_char_only(normalized_ch)
    IN IF ~IsSome(ascii_content)
       THEN Issue(<<>>)
       ELSE Issue(size_commands(sc.state.text_size)
                    \o decoration_commands(sc.state.text_decoration)
                    \o <<Cmd("write", "", Unwrap(ascii_content))>>)

\* impl ToPrintCommand for StyledChar: [cmds, ok]
styled_char_commands(sc) ==
    LET n == normalize_char(sc.ch)
        normalized_ch == IF IsSome(n) THEN Unwrap(n) ELSE sc.ch
        ascii_content == cp437_char_only(normalized_ch)
    IN IF ~IsSome(ascii_content)
       THEN [cmds |-> <<>>, ok |-> FALSE]
       ELSE Issue(size_commands(sc.state.text_size)
                    \o decoration_commands(sc.state.text_decoration)
                    \o <<Cmd("write", "", Unwrap(ascii_content))>>)

\* for styled_char in &line.chars { styled_char.to_print_command(printer)?; }
chars_commands(chars) ==
    ForRange(LAMBDA st, i : Then(st, styled_char_commands(chars[i])),
             Issue(<<>>), 1, Len(chars))

\* justify, the characters and the feed of one Line: [cmds, ok]
line_commands(l) ==
    Then(Then(Issue(justify_commands(l.justify_content)),
              chars_commands(l.chars)),
         Issue(<<FEED>>))

\* pad_commands stopping one feed short of the page
RECURSIVE pad_commands_short(_, _)
pad_commands_short(line_count, rows_per_page) ==
    IF line_count + 1 < rows_per_page
    THEN <<FEED>> \o pad_commands_short(line_count + 1, rows_per_page)
    ELSE <<>>

\* while line_count < rows_per_page { printer.feed()?; line_count += 1; }
RECURSIVE pad_commands(_, _)
pad_commands(line_count, rows_per_page) ==
    IF line_count < rows_per_page
    THEN <<FEED>> \o pad_commands(line_count + 1, rows_per_page)
    ELSE <<>>

\* paginated_step that keeps counting after a cut
paginated_step_no_reset(st, l, rows_per_page) ==
    IF ~st.ok THEN st
    ELSE LET c == Then(Issue(st.cmds), line_commands(l))
             line_count == st.line_count + 1
         IN IF ~c.ok
            THEN [cmds |-> c.cmds, ok |-> FALSE, line_count |-> st.line_count]
            ELSE IF line_count >= rows_per_page
            THEN [cmds |-> Append(c.cmds, PRINT_CUT), ok |-> TRUE, line_count |-> line_count]
            ELSE [cmds |-> c.cmds, ok |-> TRUE, line_count |-> line_count]

\* the body of the paginated for loop of print_to for one Line
paginated_step(st, l, rows_per_page) ==
    IF ~st.ok THEN st
    ELSE LET c == Then(Issue(st.cmds), line_commands(l))
             line_count == st.line_count + 1
         IN IF ~c.ok
            THEN [cmds |-> c.cmds, ok |-> FALSE, line_count |-> st.line_count]
            ELSE IF line_count >= rows_per_page
            THEN [cmds |-> Append(c.cmds, PRINT_CUT), ok |-> TRUE, line_count |-> 0]
            ELSE [cmds |-> c.cmds, ok |-> TRUE, line_count |-> line_count]

\* paginated_commands closing a last page whatever the counter says
paginated_commands_always_final(ls, rows_per_page) ==
    LET end == ForRange(LAMBDA st, i : paginated_step(st, ls[i], rows_per_page),
                        [cmds |-> <<>>, ok |-> TRUE, line_count |-> 0],
                        1, Len(ls))
    IN IF end.ok
       THEN Issue(end.cmds \o pad_commands(end.line_count, rows_per_page)
                    \o <<PRINT_CUT>>)
       ELSE [cmds |-> end.cmds, ok |-> end.ok]

\* the paginated branch of print_to
paginated_commands(ls, rows_per_page) ==
    LET end == ForRange(LAMBDA st, i : paginated_step(st, ls[i], rows_per_page),
                        [cmds |-> <<>>, ok |-> TRUE, line_count |-> 0],
                        1, Len(ls))
    IN IF end.ok /\ end.line_count > 0
       THEN Issue(end.cmds \o pad_commands(end.line_count, rows_per_page)
                    \o <<PRINT_CUT>>)
       ELSE [cmds |-> end.cmds, ok |-> end.ok]

\* plain_commands cutting whatever the cut flag says
plain_commands_always_cut(ls, cutflag) ==
    Then(ForRange(LAMBDA st, i : Then(st, line_commands(ls[i])),
                  Issue(<<>>), 1, Len(ls)),
         Issue(<<PRINT_CUT>>))

\* the non-paginated branch of print_to
plain_commands(ls, cutflag) ==
    Then(ForRange(LAMBDA st, i : Then(st, line_commands(ls[i])),
                  Issue(<<>>), 1, Len(ls)),
         Issue(IF cutflag THEN <<PRINT_CUT>> ELSE <<PRINT>>))

\* print_to paginating only when the cut flag is set
print_to_commands_cut_flag(ls, cutflag, rows) ==
    IF IsSome(rows) /\ cutflag
    THEN paginated_commands(ls, Unwrap(rows))
    ELSE plain_commands(ls, cutflag)

\* PrintBuilder::print_to: [cmds |-> commands issued, ok |-> it returned Ok]
print_to_commands(ls, cutflag, rows) ==
    IF IsSome(rows)
    THEN paginated_commands(ls, Unwrap(rows))
    ELSE plain_commands(ls, cutflag)

print_to(rows) ==
    /\ LET r == print_to_commands(lines, cut, rows)
       IN /\ out' = r.cmds
          /\ result' = IF r.ok THEN "Ok" ELSE "Err"
    /\ last' = Call("print_to", <<>>, "", rows)
    /\ UNCHANGED <<lines, cut, current_text_size, current_text_decoration,
                   supplied, nops, only_appended,
                   lineVars, emitVars>>

-----------------------------------------------------------------------------
\* Inputs of the builder session

Text_run == Rep(CH_a, 25)

Text_lead_space == <<CH_SPACE>> \o Rep(CH_a, 47)

Text_words == <<CH_a, CH_SPACE>>

Text_emoji == <<CH_a, CH_EMOJI, CH_a>>

Text_quote == <<CH_RSQUO, CH_a>>

Contents == {Text_run, Text_lead_space, Text_words}

ShortContents == {<<CH_a>>, Text_emoji, Text_quote}

StyledCharInputs ==
    { StyledChar(CH_a, "Large", DefaultDecoration),
      StyledChar(CH_a, "ExtraLarge", DefaultDecoration),
      StyledChar(CH_SPACE, "Medium", DefaultDecoration),
      StyledChar(CH_EMOJI, "Medium", TextDecoration(TRUE, FALSE, FALSE)) }

DecorationInputs ==
    { TextDecoration(FALSE, TRUE, FALSE),
      TextDecoration(TRUE, FALSE, TRUE) }

JustifyInputs == {"Center", "Right"}

RowsInputs == {None, Some(1), Some(2), Some(3)}

-----------------------------------------------------------------------------
\* PrintBuilder::new(cut)

Init ==
    /\ lines = <<>>
    /\ cut \in BOOLEAN
    /\ current_text_size = "Medium"
    /\ current_text_decoration = DefaultDecoration
    /\ out = <<>>
    /\ result = "none"
    /\ last = Call("new", <<>>, "", None)
    /\ supplied = <<>>
    /\ nops = 0
    /\ only_appended = TRUE
    /\ line = DefaultLine
    /\ before = DefaultLine
    /\ added = None
    /\ returned = None
    /\ nadds = 0
    /\ styled_char = StyledChar(CH_a, "Medium", DefaultDecoration)
    /\ fail_at = None

Style ==
    \/ new_line
    \/ \E justify \in JustifyInputs : set_justify_content(justify)
    \/ \E size \in TextSizes : set_text_size(size)
    \/ \E decoration \in DecorationInputs : set_text_decoration(decoration)
    \/ reset_styles

\* A session of builder calls
Next ==
    \/ \E content \in Contents : add_content(content)
    \/ \E content \in StyledCharInputs : add_char_content(content)
    \/ Style

Spec == Init /\ [][Next]_vars

\* A session of builder calls on short texts, and its emission
NextPrint ==
    \/ \E content \in ShortContents : add_content(content)
    \/ \E content \in StyledCharInputs : add_char_content(content)
    \/ Style
    \/ \E rows \in RowsInputs : print_to(rows)

SpecPrint == Init /\ [][NextPrint]_vars

-----------------------------------------------------------------------------
\* Line::add_char on its own

SizedChars(ch) == {StyledChar(ch, size, DefaultDecoration) : size \in TextSizes}

\* Lines near the column budget: a run, an optional whitespace, a run
LineCandidates ==
    { Rep(x, n1) \o w \o Rep(y, n2) :
        x \in SizedChars(CH_a), n1 \in 0..MaxPre,
        w \in {<<>>} \cup {<<c>> : c \in SizedChars(CH_SPACE)},
        y \in SizedChars(CH_a), n2 \in 0..CPL }

LineInputs ==
    { chars \in LineCandidates :
        /\ visual_width(chars) >= CPL - Slack
        /\ visual_width(chars) <= CPL }

AddCharInputs == SizedChars(CH_a) \cup SizedChars(CH_SPACE)

InitLine ==
    /\ lines = <<>>
    /\ cut = FALSE
    /\ current_text_size = "Medium"
    /\ current_text_decoration = DefaultDecoration
    /\ out = <<>>
    /\ result = "none"
    /\ last = Call("new", <<>>, "", None)
    /\ supplied = <<>>
    /\ nops = 0
    /\ only_appended = TRUE
    /\ \E chars \in LineInputs : line = Line(chars, "Left")
    /\ before = DefaultLine
    /\ added = None
    /\ returned = None
    /\ nadds = 0
    /\ styled_char = StyledChar(CH_a, "Medium", DefaultDecoration)
    /\ fail_at = None

\* let new_line = current_line.add_char(sch)
line_add_char(sch) ==
    /\ nadds < MaxAddChar
    /\ LET r == add_char(line, sch)
       IN /\ line' = r.self
          /\ returned' = r.ret
    /\ before' = line
    /\ added' = Some(sch)
    /\ nadds' = nadds + 1
    /\ UNCHANGED <<builderVars, emitVars>>

\* current_line = new_line: the caller goes on with the returned Line
continue_on_returned ==
    /\ IsSome(returned)
    /\ line' = Unwrap(returned)
    /\ returned' = None
    /\ added' = None
    /\ UNCHANGED <<before, nadds, builderVars, emitVars>>

NextLine ==
    \/ \E sch \in AddCharInputs : line_add_char(sch)
    \/ continue_on_returned

SpecLine == InitLine /\ [][NextLine]_vars

-----------------------------------------------------------------------------
\* StyledChar::to_print_command and cp437::cp437_char_only on their own

CH_ELLIPSIS == 8230
CH_CJK == 20013

\* the characters normalize_char and normalize_to_ascii name
TypographicChars == {8216, 8217, 700, 8220, 8221, 8211, 8212, CH_ELLIPSIS}

\* every ASCII character, the code-page table, the typographic characters and
\* the characters the tests reject (emoji, CJK, arrow, bullet)
CharInputs ==
    (0..127) \cup CP437_CHARS \cup TypographicChars
        \cup {CH_EMOJI, CH_CJK, 8594, 8226}

AllDecorations == {TextDecoration(b, u, i) : b \in BOOLEAN, u \in BOOLEAN, i \in BOOLEAN}

StyledCharReceivers ==
    { StyledChar(ch, "Medium", DefaultDecoration) : ch \in CharInputs }
        \cup { StyledChar(ch, size, deco) :
                 ch \in {CH_a, CH_RSQUO, CH_EMOJI},
                 size \in TextSizes, deco \in AllDecorations }

InitChar ==
    /\ lines = <<>>
    /\ cut = FALSE
    /\ current_text_size = "Medium"
    /\ current_text_decoration = DefaultDecoration
    /\ out = <<>>
    /\ result = "none"
    /\ last = Call("new", <<>>, "", None)
    /\ supplied = <<>>
    /\ nops = 0
    /\ only_appended = TRUE
    /\ line = DefaultLine
    /\ before = DefaultLine
    /\ added = None
    /\ returned = None
    /\ nadds = 0
    /\ styled_char \in StyledCharReceivers
    /\ fail_at = None

\* cp437::cp437_char_only(styled_char.ch)
validate_char ==
    /\ result' = IF IsSome(cp437_char_only(styled_char.ch)) THEN "Ok" ELSE "Err"
    /\ out' = <<>>
    /\ last' = Call("cp437_char_only", <<styled_char>>, "", None)
    /\ UNCHANGED <<lines, cut, current_text_size, current_text_decoration,
                   supplied, nops, only_appended, lineVars, emitVars>>

\* styled_char.to_print_command(printer) on a printer that accepts every command
to_print_command ==
    /\ LET r == styled_char_commands(styled_char)
       IN /\ out' = r.cmds
          /\ result' = IF r.ok THEN "Ok" ELSE "Err"
    /\ last' = Call("to_print_command", <<styled_char>>, "", None)
    /\ UNCHANGED <<lines, cut, current_text_size, current_text_decoration,
                   supplied, nops, only_appended, lineVars, emitVars>>

NextChar ==
    \/ validate_char
    \/ to_print_command

SpecChar == InitChar /\ [][NextChar]_vars

-----------------------------------------------------------------------------
\* Printing through an adapter, on a printer that can fail a command

MaxFail == 9

\* one AnyPrinter call that goes on although the printer returned Err
device_call_unchecked(st, c, k) ==
    [cmds |-> Append(st.cmds, c), ok |-> st.ok /\ (k # Some(Len(st.cmds) + 1))]

\* one AnyPrinter call followed by `?`: the call is delegated to the printer,
\* which returns Err for its call number k; after an Err nothing is called
device_call(st, c, k) ==
    IF ~st.ok THEN st
    ELSE [cmds |-> Append(st.cmds, c), ok |-> k # Some(Len(st.cmds) + 1)]

\* print_to on a printer that fails its call number k (None: no call fails);
\* r holds the calls print_to makes as long as each returns Ok
on_device(r, k) ==
    LET sent == ForRange(LAMBDA st, i : device_call(st, r.cmds[i], k),
                         Issue(<<>>), 1, Len(r.cmds))
    IN [cmds |-> sent.cmds, ok |-> sent.ok /\ r.ok]

\* TipTapJsonAdapter::print: self.builder.print(rows)
tiptap_print_rows(rows) == rows

\* PrintBuilder::print: self.print_to(&mut printer, rows)
builder_print_rows(rows) == rows

\* the route handler's adapter.print(form.content, form.rows), after the
\* content has been rendered into the builder
adapter_print(rows, k) ==
    LET rows_per_page == builder_print_rows(tiptap_print_rows(rows))
        calls == print_to_commands(lines, cut, rows_per_page)
        r == on_device(calls, k)
    IN /\ IsSome(k) => Unwrap(k) <= Len(calls.cmds)
       /\ out' = r.cmds
       /\ result' = IF r.ok THEN "Ok" ELSE "Err"
       /\ fail_at' = k
       /\ last' = Call("print_to", <<>>, "", rows_per_page)
       /\ UNCHANGED <<lines, cut, current_text_size, current_text_decoration,
                      supplied, nops, only_appended, lineVars, styled_char>>

DeviceContents == {<<CH_a>>, Text_emoji}

\* the rows a request can carry
FormRowsInputs == {None, Some(0), Some(1), Some(2)}

FailInputs == {None} \cup {Some(k) : k \in 1..MaxFail}

\* let builder = PrintBuilder::new(true)
InitDevice ==
    /\ lines = <<>>
    /\ cut = TRUE
    /\ current_text_size = "Medium"
    /\ current_text_decoration = DefaultDecoration
    /\ out = <<>>
    /\ result = "none"
    /\ last = Call("new", <<>>, "", None)
    /\ supplied = <<>>
    /\ nops = 0
    /\ only_appended = TRUE
    /\ line = DefaultLine
    /\ before = DefaultLine
    /\ added = None
    /\ returned = None
    /\ nadds = 0
    /\ styled_char = StyledChar(CH_a, "Medium", DefaultDecoration)
    /\ fail_at = None

NextDevice ==
    \/ \E content \in DeviceContents : add_content(content)
    \/ new_line
    \/ \E rows \in FormRowsInputs, k \in FailInputs : adapter_print(rows, k)

SpecDevice == InitDevice /\ [][NextDevice]_vars

-----------------------------------------------------------------------------
\* Notions the properties are stated with

\* the characters of the builder read Line by Line
Flatten(ls) ==
    ForRange(LAMBDA acc, i : acc \o ls[i].chars, <<>>, 1, Len(ls))

NonWhitespace(chars) == SelectSeq(chars, LAMBDA sc : ~is_whitespace(sc.ch))

Widths(ls) == [i \in DOMAIN ls |-> visual_width(ls[i].chars)]

\* the receiver with the argument of the last Line::add_char pushed
Pushed == Append(before.chars, Unwrap(added))

ReturnedChars == IF IsSome(returned) THEN Unwrap(returned).chars ELSE <<>>

Overflowed == IsSome(added) /\ visual_width(Pushed) > CPL

\* the 1-based positions of the whitespace characters of chars whose
\* preceding characters total at most CPL columns
InBudgetWhitespace(chars) ==
    { i \in DOMAIN chars :
        /\ is_whitespace(chars[i].ch)
        /\ visual_width(SubSeq(chars, 1, i - 1)) <= CPL }

Max(S) == CHOOSE m \in S : \A o \in S : o <= m

-----------------------------------------------------------------------------
\* C1: after any sequence of PrintBuilder mutator calls every Line of the
\* builder, wrap-split Lines included, has a visual width of at most CPL.
\* (Spec; violated: the remainder of a soft wrap is not measured.)
C1_EveryLineWithinCPL ==
    \A i \in DOMAIN lines : visual_width(lines[i].chars) <= CPL

\* C2: if the receiver's visual width is at most CPL before Line::add_char,
\* it is at most CPL after it, whether the call did not wrap, soft-wrapped or
\* hard-wrapped.  (SpecLine)
C2_ReceiverWithinCPL ==
    (IsSome(added) /\ visual_width(before.chars) <= CPL)
        => visual_width(line.chars) <= CPL

\* a soft wrap whose whitespace sits exactly at the column budget
C2_Witness ==
    /\ Overflowed
    /\ visual_width(before.chars) = CPL
    /\ is_whitespace(Unwrap(added).ch)
    /\ line.chars = before.chars
    /\ returned = None

\* C5: when the append overflows and the Line holds a whitespace whose
\* preceding characters total at most CPL columns, the receiver keeps exactly
\* the characters before the last such whitespace, the returned Line holds
\* exactly the characters after it (no Line is returned when there are none),
\* and that whitespace is in neither.  (SpecLine)
C5_SplitAtLastWhitespace ==
    (Overflowed /\ InBudgetWhitespace(Pushed) # {})
        => LET p == Max(InBudgetWhitespace(Pushed))
           IN /\ line.chars = SubSeq(Pushed, 1, p - 1)
              /\ ReturnedChars = SubSeq(Pushed, p + 1, Len(Pushed))
              /\ Len(line.chars) + Len(ReturnedChars) = Len(Pushed) - 1

\* two whitespaces within the budget, split at the second one
C5_Witness ==
    /\ Overflowed
    /\ Cardinality(InBudgetWhitespace(Pushed)) >= 2
    /\ IsSome(returned)
    /\ Len(line.chars) = Max(InBudgetWhitespace(Pushed)) - 1
    /\ \E i \in DOMAIN line.chars : is_whitespace(line.chars[i].ch)

-----------------------------------------------------------------------------
\* Steps of the builder session, as seen from the two states of a step

Appended == last'.op \in {"add_content", "add_char_content"} /\ nops' = nops + 1

AppendedChar == last'.op = "add_char_content" /\ nops' = nops + 1

\* the characters of the Line the append works on
CurrentChars == IF lines = <<>> THEN <<>> ELSE lines[Len(lines)].chars

\* the single Line::add_char of an add_char_content step overflowed and
\* returned None
OverflowedToNone ==
    /\ AppendedChar
    /\ visual_width(Append(CurrentChars, last'.chars[1])) > CPL
    /\ Len(lines') = (IF lines = <<>> THEN 1 ELSE Len(lines))

RemoveAt(seq, k) == SubSeq(seq, 1, k - 1) \o SubSeq(seq, k + 1, Len(seq))

\* flat is sup with some whitespace characters deleted and nothing else
\* changed: sup is walked with the position j of the next character of flat
\* to find (0 once a non-whitespace character of sup is missing)
OnlyWhitespaceDeleted(flat, sup) ==
    ForRange(LAMBDA j, i :
                 IF j = 0 THEN 0
                 ELSE IF j <= Len(flat) /\ flat[j] = sup[i] THEN j + 1
                 ELSE IF is_whitespace(sup[i].ch) THEN j
                 ELSE 0,
             1, 1, Len(sup)) = Len(flat) + 1

\* C3: wrapping never removes a non-whitespace character: the
\* non-whitespace characters of the builder, read in order, are those supplied
\* to add_content / add_char_content, in order; one add_char removes at most
\* one character, and only a whitespace one.  (Spec)
C3_Step ==
    /\ NonWhitespace(Flatten(lines')) = NonWhitespace(supplied')
    /\ AppendedChar =>
         LET all == Append(Flatten(lines), last'.chars[1])
             after == Flatten(lines')
         IN \/ after = all
            \/ \E k \in DOMAIN all :
                 /\ is_whitespace(all[k].ch)
                 /\ after = RemoveAt(all, k)

C3_NonWhitespaceKept == [][C3_Step]_vars

\* a soft wrap has removed whitespace and the builder holds several Lines
C3_Witness ==
    /\ last.op = "add_content"
    /\ Len(lines) >= 2
    /\ Len(Flatten(lines)) < Len(supplied)
    /\ NonWhitespace(supplied) # <<>>
    /\ \E i \in DOMAIN supplied : is_whitespace(supplied[i].ch)

\* C4 as stated: every character supplied appears in exactly one Line, and
\* add_char returns None after an overflow only when that drops nothing.
\* (Spec; violated: the whitespace of a soft-wrap point is in no Line.)
C4_Original_Step ==
    /\ Flatten(lines') = supplied'
    /\ OverflowedToNone => Flatten(lines') = Append(Flatten(lines), last'.chars[1])

C4_Original == [][C4_Original_Step]_vars

\* C4 amended: a Line is split, never truncated: the characters of the
\* builder are the supplied ones in order with only soft-wrap whitespace
\* missing, and add_char returns None after an overflow only when the
\* appended character is the whitespace of the wrap point, the one character
\* dropped.  (Spec)
C4_Step ==
    /\ OnlyWhitespaceDeleted(Flatten(lines'), supplied')
    /\ OverflowedToNone =>
         /\ is_whitespace(last'.chars[1].ch)
         /\ Flatten(lines') = Flatten(lines)

C4_SplitNeverTruncated == [][C4_Step]_vars

\* an appended whitespace overflowed a full Line and no Line was returned
C4_Witness ==
    /\ last.op = "add_char_content"
    /\ is_whitespace(last.chars[1].ch)
    /\ Len(lines) = 1
    /\ visual_width(lines[1].chars) = CPL
    /\ Len(supplied) = Len(lines[1].chars) + 1

\* C6: appending to an empty builder, at one TextSize, text without
\* whitespace gives Lines of exactly CPL \div char_width characters, except
\* possibly the last; 50 Medium characters give 48 and 2, and 25 ExtraLarge
\* characters wrap after the 16th.  (Spec)
C6_HardWrapLineLengths ==
    (/\ only_appended
     /\ supplied # <<>>
     /\ \A i \in DOMAIN supplied :
          /\ ~is_whitespace(supplied[i].ch)
          /\ supplied[i].state.text_size = supplied[1].state.text_size)
    => LET per == CPL \div char_width(supplied[1].state.text_size)
           n == Len(supplied)
           count == Len(lines)
           lengths == [i \in DOMAIN lines |-> Len(lines[i].chars)]
       IN /\ count = (n + per - 1) \div per
          /\ \A i \in 1..(count - 1) : lengths[i] = per
          /\ lengths[count] = n - per * (count - 1)
          /\ (n = 50 /\ per = 48) => lengths = <<48, 2>>
          /\ (n = 25 /\ per = 16) => lengths[1] = 16

\* 25 ExtraLarge characters appended to the empty builder: 16 and 9
C6_Witness ==
    /\ only_appended
    /\ last.op = "add_content"
    /\ Len(supplied) = 25
    /\ \A i \in DOMAIN supplied : supplied[i].state.text_size = "ExtraLarge"
    /\ [i \in DOMAIN lines |-> Len(lines[i].chars)] = <<16, 9>>

-----------------------------------------------------------------------------
\* Notions the emission properties are stated with

Printed == last.op = "print_to"

Count(name) == Cardinality({i \in DOMAIN out : out[i].cmd = name})

CutPositions == {i \in DOMAIN out : out[i] = PRINT_CUT}

\* the position of the cut before position c, 0 when there is none
PreviousCut(c) ==
    IF \E i \in CutPositions : i < c
    THEN Max({i \in CutPositions : i < c})
    ELSE 0

FeedsBetween(a, b) == Cardinality({i \in (a + 1)..(b - 1) : out[i] = FEED})

\* the character the device is asked to write for ch
Normalized(ch) == IF IsSome(normalize_char(ch)) THEN Unwrap(normalize_char(ch)) ELSE ch

\* ch cannot be represented on the device after normalization
Unrepresentable(ch) ==
    /\ ~is_ascii(Normalized(ch))
    /\ Normalized(ch) \notin CP437_CHARS

Unrepresentables(chars) == SelectSeq(chars, LAMBDA sc : Unrepresentable(sc.ch))

Min(S) == CHOOSE m \in S : \A o \in S : m <= o

BadLines ==
    {i \in DOMAIN lines : Unrepresentables(lines[i].chars) # <<>>}

\* the Line and the position in it of the first unrepresentable character
FirstBadLine == Min(BadLines)

FirstBadPos ==
    Min({p \in DOMAIN lines[FirstBadLine].chars :
           Unrepresentable(lines[FirstBadLine].chars[p].ch)})

\* position in out of the justify command of Line i in the non-paginated
\* emission: each Line takes a justify, five commands per character, a feed
LineStart(i) ==
    1 + ForRange(LAMBDA acc, j : acc + 2 + 5 * Len(lines[j].chars), 0, 1, i - 1)

JustifyArg(justify) ==
    CASE justify = "Left" -> "LEFT"
      [] justify = "Center" -> "CENTER"
      [] justify = "Right" -> "RIGHT"

IsSizeCommand(c, size) ==
    CASE size = "Medium" -> c.cmd = "reset_size"
      [] size = "Large" -> c.cmd = "size" /\ c.arg = "2x2"
      [] size = "ExtraLarge" -> c.cmd = "size" /\ c.arg = "3x3"

-----------------------------------------------------------------------------
\* C7: with rows = Some(n), n >= 1, and k*n + r Lines, a print_to that runs
\* to its end issues exactly k + (1 if r > 0) cuts, every cut is preceded by
\* exactly n feeds since the previous cut, and a partial last page is padded
\* with n - r blank feeds right before its cut.  (SpecPrint)
C7_Pagination ==
    (/\ Printed /\ IsSome(last.rows) /\ result = "Ok"
     /\ Unwrap(last.rows) >= 1)
    => LET n == Unwrap(last.rows)
           k == Len(lines) \div n
           r == Len(lines) % n
       IN /\ Cardinality(CutPositions) = k + (IF r > 0 THEN 1 ELSE 0)
          /\ \A c \in CutPositions : FeedsBetween(PreviousCut(c), c) = n
          /\ Count("feed") = n * Cardinality(CutPositions)
          /\ Count("print") = 0
          /\ lines # <<>> => out[Len(out)] = PRINT_CUT
          /\ r > 0 => \A i \in (Len(out) - (n - r))..(Len(out) - 1) : out[i] = FEED

\* one full page and a partial page padded with one feed
C7_Witness ==
    /\ Printed /\ result = "Ok"
    /\ last.rows = Some(2)
    /\ Len(lines) = 3
    /\ Cardinality(CutPositions) = 2
    /\ out[Len(out) - 1] = FEED /\ out[Len(out) - 2] = FEED

\* C8: with rows = None a print_to that runs to its end issues, per Line in
\* order, the justify command, per character the size command, the
\* decoration commands and the write, then one feed; then one final command,
\* print_cut if the cut flag is set and print otherwise, and no other cut or
\* print.  (SpecPrint)
C8_PlainEmission ==
    (Printed /\ last.rows = None /\ result = "Ok")
    => /\ Len(out) = LineStart(Len(lines) + 1)
       /\ \A i \in DOMAIN lines :
            LET l == lines[i]
                s0 == LineStart(i)
            IN /\ out[s0] = Cmd("justify", JustifyArg(l.justify_content), 0)
               /\ \A q \in DOMAIN l.chars :
                    LET b == s0 + 5 * (q - 1)
                        d == l.chars[q].state.text_decoration
                    IN /\ IsSizeCommand(out[b + 1], l.chars[q].state.text_size)
                       /\ out[b + 2].cmd = "bold"
                       /\ out[b + 2].arg = (IF d.bold THEN "true" ELSE "false")
                       /\ out[b + 3].cmd = "underline"
                       /\ out[b + 4].cmd = "underline"
                       /\ out[b + 5] = Cmd("write", "", Normalized(l.chars[q].ch))
               /\ out[s0 + 5 * Len(l.chars) + 1] = FEED
       /\ out[Len(out)] = (IF cut THEN PRINT_CUT ELSE PRINT)
       /\ Count("print_cut") + Count("print") = 1

\* two Lines, one of them with several characters, emitted without a cut
C8_Witness ==
    /\ Printed /\ last.rows = None /\ result = "Ok"
    /\ ~cut
    /\ Len(lines) >= 2
    /\ \E i \in DOMAIN lines : Len(lines[i].chars) >= 2
    /\ out[Len(out)] = PRINT

\* C9 as stated: add_content and add_char_content fail at the first character
\* that is not in the device character set; the characters before it stay in
\* the builder, it and the characters after it are not appended.
\* (SpecPrint; violated: the builder appends without validating.)
C9_Original_Step ==
    (Appended /\ Unrepresentables(last'.chars) # <<>>)
    => LET bad == Min({i \in DOMAIN last'.chars :
                         Unrepresentable(last'.chars[i].ch)})
       IN /\ result' = "Err"
          /\ Flatten(lines') = Flatten(lines) \o SubSeq(last'.chars, 1, bad - 1)

C9_Step ==
    /\ Appended =>
         /\ result' = "Ok"
         /\ OnlyWhitespaceDeleted(Flatten(lines'), Flatten(lines) \o last'.chars)
         /\ Unrepresentables(Flatten(lines')) =
                Unrepresentables(Flatten(lines)) \o Unrepresentables(last'.chars)
    /\ last'.op = "print_to" => (result' = "Err" <=> BadLines' # {})

C10_FailsAtUnsupported ==
    Printed =>
      IF BadLines = {} THEN result = "Ok"
      ELSE LET i == FirstBadLine
               q == FirstBadPos
               written == Len(Flatten(SubSeq(lines, 1, i - 1))) + q - 1
           IN /\ result = "Err"
              /\ Count("write") = written
              /\ Count("size") + Count("reset_size") = written
              /\ Count("bold") = written
              /\ Count("underline") = 2 * written
              /\ Count("justify") = i
              /\ Count("feed") = i - 1
              /\ Count("print") = 0
              /\ \A c \in DOMAIN out :
                   out[c].cmd = "write" => ~Unrepresentable(out[c].ch)
              /\ out[Len(out)].cmd = (IF q = 1 THEN "justify" ELSE "write")
              /\ q > 1 =>
                   out[Len(out)].ch = Normalized(lines[i].chars[q - 1].ch)

\* emission stopped inside the second Line, after one of its characters
C10_Witness ==
    /\ Printed /\ result = "Err"
    /\ BadLines # {}
    /\ FirstBadLine = 2
    /\ FirstBadPos = 2
    /\ lines[1].chars # <<>>
    /\ out[Len(out)].cmd = "write"

-----------------------------------------------------------------------------
\* Notions of the character properties

\* the ASCII characters that are printable or whitespace
AsciiPrintableOrWhitespace(ch) ==
    is_ascii(ch) /\ ((ch >= 32 /\ ch <= 126) \/ is_whitespace(ch))

\* the typographic characters of the normalization table and their equivalents
NormalizationTable ==
    [ch \in TypographicChars |->
        IF ch \in {8216, 8217, 700} THEN {CH_APOSTROPHE}
        ELSE IF ch \in {8220, 8221} THEN {CH_QUOTE}
        ELSE IF ch \in {8211, 8212} THEN {CH_HYPHEN}
        ELSE {46}]

Writes == SelectSeq(out, LAMBDA c : c.cmd = "write")

\* the argument of the last command of that name issued before the write
DeviceMode(name) ==
    LET sel == SelectSeq(out, LAMBDA c : c.cmd = name)
    IN IF sel = <<>> THEN "unset" ELSE sel[Len(sel)].arg

\* C11: cp437_char_only succeeds if and only if the character is ASCII
\* printable or whitespace, or an entry of CP437_CHARS; every other character
\* (ESC, NUL, emoji, CJK, a curly quote) is rejected.
\* (SpecChar; violated: every ASCII character passes, control characters too.)
C11_ValidatesCharset ==
    last.op = "cp437_char_only" =>
        (result = "Ok" <=>
            (AsciiPrintableOrWhitespace(styled_char.ch)
                \/ styled_char.ch \in CP437_CHARS))

\* C12: at emission each character of the normalization table (curly single
\* and double quotes, en dash, em dash, horizontal ellipsis) is replaced by its
\* equivalent, so emitting it succeeds and writes the equivalent; every other
\* character reaches validation unchanged.
\* (SpecChar; violated: the horizontal ellipsis is not replaced and is rejected.)
C12_NormalizesTable ==
    last.op = "to_print_command" =>
        LET ch == styled_char.ch
        IN IF ch \in TypographicChars
           THEN /\ result = "Ok"
                /\ Len(Writes) >= 1
                /\ \A i \in DOMAIN Writes : Writes[i].ch \in NormalizationTable[ch]
           ELSE /\ result = "Ok" <=> IsSome(cp437_char_only(ch))
                /\ result = "Ok" => Writes = <<Cmd("write", "", ch)>>

\* C17: when a StyledChar is written the device's underline mode is Single if
\* its decoration has underline or italic set and None if neither is set, and
\* the device's bold state is the bold flag.
\* (SpecChar; violated: the italic command overrides the underline command.)
C17_ItalicAsUnderline ==
    (last.op = "to_print_command" /\ result = "Ok") =>
        LET d == styled_char.state.text_decoration
        IN /\ DeviceMode("underline")
                = (IF d.underline \/ d.italic THEN "Single" ELSE "None")
           /\ DeviceMode("bold") = (IF d.bold THEN "true" ELSE "false")

-----------------------------------------------------------------------------
\* Notions of the device properties

\* the calls print_to makes on a printer that accepts every command
AcceptedCalls == print_to_commands(lines, cut, last.rows).cmds

\* C13: if a device command fails during print_to, paginated or not,
\* print_to returns the error and issues no further command: the failed
\* command is the last one sent, it is sent once, and no later write, feed,
\* pad feed, cut or print follows.  (SpecDevice)
C13_FailureAborts ==
    (last.op = "print_to" /\ IsSome(fail_at)) =>
        /\ result = "Err"
        /\ Len(out) = Unwrap(fail_at)
        /\ out = SubSeq(AcceptedCalls, 1, Unwrap(fail_at))

\* the pad feed of a partial page fails: the final cut is not sent
C13_Witness ==
    /\ last.op = "print_to"
    /\ last.rows = Some(2)
    /\ Len(lines) = 1
    /\ IsSome(fail_at)
    /\ Unwrap(fail_at) = Len(AcceptedCalls) - 1
    /\ out[Len(out)] = FEED
    /\ out[Len(out) - 1] = FEED
    /\ result = "Err"

\* C16: emission is never invoked with rows_per_page = Some(0): the callers
\* that forward a user-supplied rows value map 0 to None before print.
\* (SpecDevice; violated: the rows value is forwarded as it is.)
C16_RowsNeverZero ==
    last.op = "print_to" => last.rows # Some(0)

-----------------------------------------------------------------------------
\* Notions of the frame properties

Called(op) == last'.op = op /\ nops' = nops + 1

\* the index of the Line an append works on (1 when the builder is empty)
CurrentIndex == IF lines = <<>> THEN 1 ELSE Len(lines)

PendingState == FormatState(current_text_size, current_text_decoration)

\* the characters of the call, carrying the pending style in force at the call
ExpectedStamp ==
    [i \in DOMAIN last'.chars |-> [ch |-> last'.chars[i].ch, state |-> PendingState]]

\* C14: every Line created implicitly inherits a justification: the Lines
\* wrap-splitting creates carry the justification of the Line they were split
\* from, and new_line pushes exactly one empty Line with the justification of
\* the last Line (Left when the builder holds no Line).  (Spec)
C14_Step ==
    /\ Appended =>
         /\ \A i \in CurrentIndex..Len(lines') :
              lines'[i].justify_content = current_line_justify_content(lines)
         /\ \A i \in 1..(CurrentIndex - 1) : lines'[i] = lines[i]
         /\ Len(lines') >= CurrentIndex
    /\ Called("new_line") =>
         lines' = Append(lines,
                         Line(<<>>, IF lines = <<>> THEN "Left"
                                    ELSE lines[Len(lines)].justify_content))

C14_JustificationInherited == [][C14_Step]_vars

\* a centred Line has been split by wrapping: both parts are centred
C14_Witness ==
    /\ last.op = "add_content"
    /\ Len(lines) = 2
    /\ lines[1].justify_content = "Center"
    /\ lines[2].justify_content = "Center"
    /\ visual_width(lines[1].chars) = CPL
    /\ lines[2].chars # <<>>

\* C15: the column budget is inclusive: add_char returns None and keeps every
\* character in the receiver whenever the width after appending is at most
\* CPL, exactly CPL included; the first append of a non-whitespace character
\* that makes the width exceed CPL returns a new Line.  (SpecLine)
C15_InclusiveBudget ==
    IsSome(added) =>
        /\ visual_width(Pushed) <= CPL =>
             (returned = None /\ line.chars = Pushed)
        /\ (/\ visual_width(before.chars) <= CPL
            /\ visual_width(Pushed) > CPL
            /\ ~is_whitespace(Unwrap(added).ch)) => IsSome(returned)

\* an append has brought the receiver to exactly CPL columns without wrapping
C15_Witness ==
    /\ IsSome(added)
    /\ visual_width(before.chars) < CPL
    /\ visual_width(Pushed) = CPL
    /\ returned = None
    /\ line.chars = Pushed

\* C18: set_justify_content(j) sets the justification of the last Line when
\* the builder holds a Line and otherwise pushes one empty Line of
\* justification j; no character, no other Line's justification, not the
\* number of Lines in the first case, not the cut flag and not the pending
\* size and decoration change.  (Spec)
C18_Step ==
    Called("set_justify_content") =>
        /\ IF lines # <<>>
           THEN /\ Len(lines') = Len(lines)
                /\ lines'[Len(lines)].justify_content = last'.arg
                /\ lines'[Len(lines)].chars = lines[Len(lines)].chars
                /\ \A i \in 1..(Len(lines) - 1) : lines'[i] = lines[i]
           ELSE lines' = <<Line(<<>>, last'.arg)>>
        /\ cut' = cut
        /\ current_text_size' = current_text_size
        /\ current_text_decoration' = current_text_decoration

C18_SetJustifyFrame == [][C18_Step]_vars

\* the last of two Lines has been justified, the first keeps its own
C18_Witness ==
    /\ last.op = "set_justify_content"
    /\ last.arg = "Right"
    /\ Len(lines) = 2
    /\ lines[1].justify_content = "Center"
    /\ lines[2].justify_content = "Right"

\* C19: set_text_size and set_text_decoration change only the pending style
\* and leave every Line and every appended StyledChar as it is; the
\* characters a later add_content appends carry exactly the pending size and
\* decoration in force at that call.  (Spec)
C19_Step ==
    /\ Called("set_text_size") =>
         /\ lines' = lines
         /\ cut' = cut
         /\ current_text_size' = last'.arg
         /\ current_text_decoration' = current_text_decoration
    /\ Called("set_text_decoration") =>
         /\ lines' = lines
         /\ cut' = cut
         /\ current_text_size' = current_text_size
    /\ Called("add_content") =>
         /\ OnlyWhitespaceDeleted(Flatten(lines'), Flatten(lines) \o ExpectedStamp)
         /\ current_text_size' = current_text_size
         /\ current_text_decoration' = current_text_decoration

C19_PendingStyleOnly == [][C19_Step]_vars

\* Medium characters appended, the size set to Large, Large characters
\* appended: the builder holds both
C19_Witness ==
    /\ last.op = "add_content"
    /\ current_text_size = "Large"
    /\ Len(lines) >= 1
    /\ lines[1].chars # <<>>
    /\ lines[1].chars[1].state.text_size = "Medium"
    /\ LET l == lines[Len(lines)].chars
       IN l # <<>> /\ l[Len(l)].state.text_size = "Large"

\* C20: reset_styles sets the pending size to Medium and the pending
\* decoration to all-false, and sets the justification of the last Line to
\* Left, also when that Line holds characters, or pushes one empty Left Line
\* when the builder is empty; no character and no other Line changes.  (Spec)
C20_Step ==
    Called("reset_styles") =>
        /\ current_text_size' = "Medium"
        /\ current_text_decoration' = TextDecoration(FALSE, FALSE, FALSE)
        /\ IF lines # <<>>
           THEN /\ Len(lines') = Len(lines)
                /\ lines'[Len(lines)] = Line(lines[Len(lines)].chars, "Left")
                /\ \A i \in 1..(Len(lines) - 1) : lines'[i] = lines[i]
           ELSE lines' = <<Line(<<>>, "Left")>>
        /\ cut' = cut

C20_ResetStyles == [][C20_Step]_vars

\* reset_styles after two other calls, on a Line that holds characters
C20_Witness ==
    /\ last.op = "reset_styles"
    /\ nops = MaxOps
    /\ Len(lines) = 1
    /\ lines[1].chars # <<>>
    /\ lines[1].justify_content = "Left"
    /\ current_text_size = "Medium"
    /\ current_text_decoration = DefaultDecoration

-----------------------------------------------------------------------------
\* C21: normalization is idempotent: with normalize(c) the replacement
\* normalize_char gives, or c when it gives none, normalize(normalize(c)) =
\* normalize(c) for every character c; the character emission writes for c is
\* normalize(c).  (SpecChar)
C21_NormalizeIdempotent ==
    last.op = "to_print_command" =>
        /\ Normalized(Normalized(styled_char.ch)) = Normalized(styled_char.ch)
        /\ result = "Ok" =>
             Writes = <<Cmd("write", "", Normalized(styled_char.ch))>>

\* a curly quote has been emitted as the straight apostrophe
C21_Witness ==
    /\ last.op = "to_print_command"
    /\ styled_char.ch = CH_RSQUO
    /\ Normalized(styled_char.ch) # styled_char.ch
    /\ result = "Ok"
    /\ Writes = <<Cmd("write", "", CH_APOSTROPHE)>>

-----------------------------------------------------------------------------
\* Emission of documents of up to MaxLines Lines

MaxLines == 7

\* the Lines new_line and add_content("a") leave: empty, or one Medium 'a'
PageLineInputs ==
    { Line(chars, "Left") :
        chars \in {<<>>, Stamp(<<CH_a>>, "Medium", DefaultDecoration)} }

PageDocuments == UNION { [1..n -> PageLineInputs] : n \in 0..MaxLines }

PageRowsInputs == {None, Some(0), Some(1), Some(2), Some(3)}

\* a builder after new_line for every Line and add_content("a") for the
\* Lines that hold a character
InitPages ==
    /\ lines \in PageDocuments
    /\ cut \in BOOLEAN
    /\ current_text_size = "Medium"
    /\ current_text_decoration = DefaultDecoration
    /\ out = <<>>
    /\ result = "Ok"
    /\ last = Call("new_line", <<>>, "", None)
    /\ supplied = Flatten(lines)
    /\ nops = Len(lines) + Len(Flatten(lines))
    /\ only_appended = (Len(lines) = 0)
    /\ line = DefaultLine
    /\ before = DefaultLine
    /\ added = None
    /\ returned = None
    /\ nadds = 0
    /\ styled_char = StyledChar(CH_a, "Medium", DefaultDecoration)
    /\ fail_at = None

NextPages == \E rows \in PageRowsInputs : print_to(rows)

SpecPages == InitPages /\ [][NextPages]_vars

\* the cuts of out in the order they were issued
CutSeq ==
    LET RECURSIVE Order(_)
        Order(S) == IF S = {} THEN <<>>
                    ELSE <<Min(S)>> \o Order(S \ {Min(S)})
    IN Order(CutPositions)

JustifiesBetween(a, b) ==
    Cardinality({i \in (a + 1)..(b - 1) : out[i].cmd = "justify"})

-----------------------------------------------------------------------------
\* C22 (as stated): with 7 Lines and rows = Some(3), print_to issues a cut
\* after Line 3, a cut after Line 6, and after Line 7 exactly one blank pad
\* feed followed by the final cut.  (SpecPages)
C22_OnePadFeed ==
    (Printed /\ result = "Ok" /\ Len(lines) = 7 /\ last.rows = Some(3))
    => /\ Len(CutSeq) = 3
       /\ JustifiesBetween(0, CutSeq[1]) = 3
       /\ JustifiesBetween(CutSeq[1], CutSeq[2]) = 3
       /\ JustifiesBetween(CutSeq[2], CutSeq[3]) = 1
       /\ FeedsBetween(CutSeq[2], CutSeq[3]) = 1 + 1

\* C22 (amended): with 7 Lines and rows = Some(3), print_to issues a cut
\* right after the feed of Line 3, a cut right after the feed of Line 6, and
\* after the feed of Line 7 exactly two blank pad feeds followed by the final
\* cut, which is the last command.  (SpecPages)
C22_SevenLinesThreeRows ==
    (Printed /\ result = "Ok" /\ Len(lines) = 7 /\ last.rows = Some(3))
    => /\ Len(CutSeq) = 3
       /\ JustifiesBetween(0, CutSeq[1]) = 3
       /\ FeedsBetween(0, CutSeq[1]) = 3
       /\ out[CutSeq[1] - 1] = FEED
       /\ JustifiesBetween(CutSeq[1], CutSeq[2]) = 3
       /\ FeedsBetween(CutSeq[1], CutSeq[2]) = 3
       /\ out[CutSeq[2] - 1] = FEED
       /\ JustifiesBetween(CutSeq[2], CutSeq[3]) = 1
       /\ FeedsBetween(CutSeq[2], CutSeq[3]) = 1 + 2
       /\ CutSeq[3] = Len(out)
       /\ \A i \in 1..3 : out[Len(out) - i] = FEED
       /\ out[Len(out) - 4].cmd # "feed"

\* seven Lines, the last one holding a character, printed three to a page
C22_Witness ==
    /\ Printed /\ result = "Ok"
    /\ Len(lines) = 7 /\ last.rows = Some(3)
    /\ lines[7].chars # <<>>
    /\ Cardinality(CutPositions) = 3
    /\ out[Len(out)] = PRINT_CUT

\* C26: in paginated mode (rows = Some(n)) the cut flag has no effect: a
\* builder holding the same Lines with the other cut flag produces the same
\* command sequence; a print that runs to its end closes every page with
\* print_cut (the last command is a cut and every cut follows a feed) and
\* never issues the plain print command.  (SpecPages)
C26_CutFlagIgnored ==
    (Printed /\ IsSome(last.rows))
    => /\ out = print_to_commands(lines, ~cut, last.rows).cmds
       /\ Count("print") = 0
       /\ result = "Ok" =>
            /\ out # <<>> => out[Len(out)] = PRINT_CUT
            /\ lines # <<>> => out # <<>>
            /\ \A c \in CutPositions : c > 1 /\ out[c - 1] = FEED

\* a builder with the cut flag off has printed pages, each closed by a cut
C26_Witness ==
    /\ Printed /\ result = "Ok"
    /\ ~cut
    /\ last.rows = Some(2)
    /\ Len(lines) = 3
    /\ Cardinality(CutPositions) = 2
    /\ out[Len(out)] = PRINT_CUT

\* C27: print_to with rows = Some(0) terminates for every builder: it issues
\* a cut right after the feed of every Line, no pad feed (one feed per Line
\* and no more), and as many cuts as there are Lines.  (SpecPages)
C27_ZeroRows ==
    (Printed /\ last.rows = Some(0))
    => /\ result = "Ok"
       /\ Cardinality(CutPositions) = Len(lines)
       /\ Count("feed") = Len(lines)
       /\ Count("justify") = Len(lines)
       /\ \A c \in CutPositions :
            /\ out[c - 1] = FEED
            /\ FeedsBetween(PreviousCut(c), c) = 1
            /\ JustifiesBetween(PreviousCut(c), c) = 1
       /\ lines # <<>> => out[Len(out)] = PRINT_CUT

\* seven Lines printed with rows = Some(0): seven cuts
C27_Witness ==
    /\ Printed /\ result = "Ok"
    /\ last.rows = Some(0)
    /\ Len(lines) = MaxLines
    /\ Cardinality(CutPositions) = MaxLines
    /\ Count("feed") = MaxLines

-----------------------------------------------------------------------------
\* Sessions appending the texts of the wrapping scenarios

Word == <<CH_w, CH_o, CH_r, CH_d, CH_SPACE>>

RECURSIVE Times(_, _)
Times(s, n) == IF n = 0 THEN <<>> ELSE s \o Times(s, n - 1)

\* "word " nine times followed by "X"
Text_words_X == Times(Word, 9) \o <<CH_X>>

\* "word " nine times, "ab ", "X": a space in column 48 and X one beyond
Text_words_ab_X == Times(Word, 9) \o <<CH_a, CH_b, CH_SPACE, CH_X>>

Text_newline == <<CH_a, CH_NEWLINE, CH_b>>

Text_empty == <<>>

ScenarioContents == {Text_words_X, Text_words_ab_X, Text_newline, Text_empty}

NextScenario ==
    \/ \E content \in ScenarioContents : add_content(content)
    \/ new_line
    \/ set_justify_content("Center")
    \/ \E size \in TextSizes : set_text_size(size)

SpecScenario == Init /\ [][NextScenario]_vars

\* the lines after add_char_content has been called once per StyledChar of
\* chars, in order
EachChar(ls, chars) ==
    ForRange(LAMBDA acc, i : add_char_content_lines(acc, chars[i]),
             ls, 1, Len(chars))

Chars(l) == [i \in DOMAIN l.chars |-> l.chars[i].ch]

-----------------------------------------------------------------------------
\* add_content(text) on an empty builder with the pending size Medium
ScenarioStep(text) ==
    /\ lines = <<>>
    /\ Called("add_content")
    /\ last'.chars = Stamp(text, "Medium", DefaultDecoration)

\* C23 (as stated): appending "word " nine times followed by "X" to an empty
\* builder at Medium wraps exactly once: the builder ends with two Lines, the
\* second starts with "X", and the space that preceded "X" is in neither
\* Line.  (SpecScenario)
C23_WrapsOnce ==
    [][ScenarioStep(Text_words_X)
       => /\ Len(lines') = 2
          /\ lines'[2].chars # <<>>
          /\ Chars(lines'[2])[1] = CH_X
          /\ Len(Flatten(lines')) = Len(Text_words_X) - 1]_vars

\* C23 (amended): "word " nine times followed by "X" is 46 columns wide at
\* Medium and does not wrap: appended to an empty builder it leaves one Left
\* Line holding all 46 characters, the space before "X" included.  The
\* 49-character text "word " nine times, "ab ", "X" wraps exactly once: two
\* Lines, the first ending with "ab", the second holding "X", and the space
\* that preceded "X" in neither.  (SpecScenario)
C23_ScenarioWrap ==
    [][/\ ScenarioStep(Text_words_X)
          => /\ Len(lines') = 1
             /\ Chars(lines'[1]) = Text_words_X
             /\ lines'[1].justify_content = "Left"
       /\ ScenarioStep(Text_words_ab_X)
          => /\ Len(lines') = 2
             /\ Chars(lines'[1]) = Times(Word, 9) \o <<CH_a, CH_b>>
             /\ Chars(lines'[2]) = <<CH_X>>
             /\ \A i \in 1..2 : lines'[i].justify_content = "Left"]_vars

\* the 46-character text has been appended to the empty builder: one Line
C23_Witness ==
    /\ last.op = "add_content"
    /\ nops = 1
    /\ last.chars = Stamp(Text_words_X, "Medium", DefaultDecoration)
    /\ Len(lines) = 1
    /\ visual_width(lines[1].chars) = 46
    /\ lines[1].chars[45].ch = CH_SPACE

\* C25 (as stated): for every builder state and every text, the empty text
\* and the empty builder included, add_content(text) leaves the same Lines
\* as add_char_content called once per character of text, in order, each
\* with the pending size and decoration.  (SpecScenario)
C25_SameAsEachChar ==
    [][Called("add_content")
       => /\ last'.chars = Stamp(Chars([chars |-> last'.chars]),
                                 current_text_size, current_text_decoration)
          /\ lines' = EachChar(lines, last'.chars)]_vars

\* C25 (amended): for every builder state and every text, except the empty
\* text on the empty builder, add_content(text) leaves the same Lines
\* (characters, per-character styles, justifications) as add_char_content
\* called once per character, in order, each with the pending size and
\* decoration; add_content of the empty text on the empty builder leaves one
\* empty Left Line, where no add_char_content call leaves no Line.
\* (SpecScenario)
C25_AddContentRefinesEachChar ==
    [][Called("add_content")
       => /\ last'.chars = Stamp(Chars([chars |-> last'.chars]),
                                 current_text_size, current_text_decoration)
          /\ (lines # <<>> \/ last'.chars # <<>>)
             => lines' = EachChar(lines, last'.chars)
          /\ (lines = <<>> /\ last'.chars = <<>>)
             => /\ lines' = <<DefaultLine>>
                /\ EachChar(lines, last'.chars) = <<>>]_vars

\* a Large text appended to a centred Line has wrapped more than once
C25_Witness ==
    /\ last.op = "add_content"
    /\ last.chars = Stamp(Text_words_ab_X, "Large", DefaultDecoration)
    /\ Len(lines) = 3
    /\ \A i \in 1..3 : lines[i].justify_content = "Center"
    /\ lines[3].chars # <<>>

\* C29: add_content never starts a new Line because of what a character is:
\* when the current Line followed by the stamped text is at most CPL columns
\* wide, every character, a line feed or any other whitespace included, is
\* stored in the current Line in order, and the number of Lines is unchanged
\* (1 when the builder was empty); the number of Lines grows only when the
\* append takes the current Line beyond CPL.  (SpecScenario)
C29_OnlyOverflowStartsLine ==
    [][Called("add_content")
       => LET fits == visual_width(CurrentChars \o last'.chars) <= CPL
          IN /\ fits => /\ Len(lines') = CurrentIndex
                        /\ lines'[CurrentIndex].chars = CurrentChars \o last'.chars
             /\ Len(lines') > CurrentIndex => ~fits
             /\ Len(lines') >= CurrentIndex
             /\ \A i \in 1..(CurrentIndex - 1) : lines'[i] = lines[i]]_vars

\* a text holding a line feed has been appended twice to the same Line
C29_Witness ==
    /\ last.op = "add_content"
    /\ nops = 2
    /\ Len(lines) = 1
    /\ Chars(lines[1]) = Text_newline \o Text_newline
    /\ \E i \in DOMAIN lines[1].chars : lines[1].chars[i].ch = CH_NEWLINE

-----------------------------------------------------------------------------
\* C24: when an append overflows a Line that holds no whitespace character
\* (none in the receiver, none appended: no wrap point exists), exactly the
\* just-appended character is moved into the returned Line, which keeps the
\* receiver's justification, and the receiver keeps all its earlier
\* characters unchanged and in order, whatever the text sizes; a multi-column
\* character is in one Line whole.  (SpecLine)
C24_HardWrapMovesOne ==
    (Overflowed /\ NonWhitespace(Pushed) = Pushed)
    => /\ line = before
       /\ returned = Some(Line(<<Unwrap(added)>>, before.justify_content))
       /\ visual_width(line.chars) + visual_width(ReturnedChars)
            = visual_width(Pushed)

\* a three-column character did not fit in the last column of a Line of
\* mixed sizes without whitespace
C24_Witness ==
    /\ Overflowed
    /\ NonWhitespace(Pushed) = Pushed
    /\ Unwrap(added).state.text_size = "ExtraLarge"
    /\ visual_width(before.chars) = CPL - 1
    /\ \E i \in DOMAIN before.chars : before.chars[i].state.text_size = "Large"
    /\ ReturnedChars = <<Unwrap(added)>>

\* C28: wrap-splitting never produces an empty Line: whenever add_char
\* returns a new Line, both the receiver and the returned Line hold at least
\* one character.  (SpecLine; violated: a wrap point at index 0 leaves the
\* receiver empty.)
C28_NoEmptyLine ==
    (IsSome(added) /\ IsSome(returned))
    => /\ line.chars # <<>>
       /\ ReturnedChars # <<>>

====
